---- MODULE Spec2Model ----
(***************************************************************************)
(* A model of scripts/generate-hero-images.py: a one-shot batch renderer   *)
(* that writes three hero banners.  The module holds four specifications:  *)
(*   Spec          the whole run of the script (lines 58-126);             *)
(*   SpecGradient  create_gradient as a pure function (lines 37-48);       *)
(*   SpecCenter    the horizontal centring of the three texts;             *)
(*   SpecVignette  the vignette loop (lines 104-115).                      *)
(***************************************************************************)
EXTENDS Integers, Sequences, FiniteSets

VARIABLES
    pc,         \* position of the script
    idx,        \* index (1..3) of the configuration the loop is at
    dirMade,    \* number of os.makedirs calls that completed
    out,        \* the lines printed so far
    written,    \* the files whose save completed, in order
    avail,      \* the font candidates that load on this machine
    fonts,      \* title_font, subtitle_font, emoji_font ("none": unbound)
    bg,         \* the gradient pair of the current canvas (<<>>: no canvas)
    draws,      \* the draw.text calls made on the current canvas, in order
    overlay,    \* the rectangles drawn on the current overlay, in order
    failed,     \* where an uncaught error was raised ([step, img]) or NoFailure
    gW, gH, gC1, gC2, gPx, gPy, gPixel,   \* create_gradient probe
    cRole, cWidth, cStart,                \* centring probe
    vI, vRects, vPx, vPy                  \* vignette loop and the pixel read

runVars == <<pc, idx, dirMade, out, written, avail, fonts, bg, draws, overlay, failed>>
gradVars == <<gW, gH, gC1, gC2, gPx, gPy, gPixel>>
centerVars == <<cRole, cWidth, cStart>>
vigVars == <<vI, vRects, vPx, vPy>>
vars == <<runVars, gradVars, centerVars, vigVars>>

----------------------------------------------------------------------------
(* Program constants *)

WIDTH == 1920
HEIGHT == 600

hero_configs ==
    << [filename |-> "hero-1.jpg",
        gradient |-> << <<255, 107, 107>>, <<255, 175, 123>> >>,
        title    |-> "Authentic Traditional Foods",
        subtitle |-> "Fresh, Local & Delicious - Delivered to Your Door",
        emoji    |-> "emoji-pot"],
       [filename |-> "hero-2.jpg",
        gradient |-> << <<72, 187, 120>>, <<56, 178, 172>> >>,
        title    |-> "Special Offers This Week",
        subtitle |-> "Save Big on Your Favorite Traditional Meals",
        emoji    |-> "emoji-party"],
       [filename |-> "hero-3.jpg",
        gradient |-> << <<99, 102, 241>>, <<139, 92, 246>> >>,
        title    |-> "Fast & Reliable Delivery",
        subtitle |-> "Order Now, Enjoy Today - Same Day Delivery Available",
        emoji    |-> "emoji-truck"] >>

NumConfigs == Len(hero_configs)

\* A variant in which every configuration carries the first file name.
FileNameFirst(i) == hero_configs[1].filename

\* config['filename'] of the i-th configuration
FileName(i) == hero_configs[i].filename

----------------------------------------------------------------------------
(* Bounds *)

\* the widest text the bounding-box measurement returns in the model
MaxTextWidth == 2000

\* the widths textbbox returns in the whole-run specification
RunTextWidths == {0, WIDTH \div 2, WIDTH, MaxTextWidth}

----------------------------------------------------------------------------
(* Font resolution, lines 71-84 *)

Roles == <<"title", "subtitle", "emoji">>

\* the ImageFont.truetype calls of the first try block, in order
PrimaryFonts ==
    [title |-> "arial.ttf@72", subtitle |-> "arial.ttf@36", emoji |-> "seguiemj.ttf@120"]

\* the ImageFont.truetype calls of the nested try block, in order
AlternateFonts ==
    [title |-> "DejaVuSans-Bold.ttf@72", subtitle |-> "DejaVuSans.ttf@36",
     emoji |-> "NotoColorEmoji.ttf@120"]

\* ImageFont.load_default()
DefaultFonts == [title |-> "default", subtitle |-> "default", emoji |-> "default"]

FontCandidates ==
    {PrimaryFonts[r] : r \in {"title", "subtitle", "emoji"}}
        \cup {AlternateFonts[r] : r \in {"title", "subtitle", "emoji"}}

\* One try block: the three assignments run in order; the first load that
\* raises leaves the block, the assignments before it having been made.
RECURSIVE TryBlock(_, _, _, _)
TryBlock(cands, loadable, f, k) ==
    IF k > Len(Roles) THEN [raised |-> FALSE, fonts |-> f]
    ELSE IF cands[Roles[k]] \in loadable
         THEN TryBlock(cands, loadable, [f EXCEPT ![Roles[k]] = cands[Roles[k]]], k + 1)
         ELSE [raised |-> TRUE, fonts |-> f]

\* The claimed behaviour, as a variant of the code: each role walks its own chain.
ResolveFontsPerRole(loadable, f) ==
    [raised |-> FALSE,
     fonts  |-> [r \in {"title", "subtitle", "emoji"} |->
                    IF PrimaryFonts[r] \in loadable THEN PrimaryFonts[r]
                    ELSE IF AlternateFonts[r] \in loadable THEN AlternateFonts[r]
                    ELSE DefaultFonts[r]]]

\* A variant without the inner try/except: a failing alternate load propagates.
ResolveFontsNoInnerTry(loadable, f) ==
    LET first == TryBlock(PrimaryFonts, loadable, f, 1) IN
    IF ~first.raised THEN first
    ELSE TryBlock(AlternateFonts, loadable, first.fonts, 1)

\* try: primaries / except: try: alternates / except: defaults
ResolveFonts(loadable, f) ==
    LET first == TryBlock(PrimaryFonts, loadable, f, 1) IN
    IF ~first.raised THEN first
    ELSE LET second == TryBlock(AlternateFonts, loadable, first.fonts, 1) IN
         IF ~second.raised THEN second
         ELSE [raised |-> FALSE, fonts |-> DefaultFonts]

----------------------------------------------------------------------------
(* Text drawing, lines 50-56 and 86-102 *)

EmojiY == 150
TitleY == 320
SubtitleY == 410
DefaultShadowOffset == 3
SubtitleShadowOffset == 2

ShadowFill == <<0, 0, 0, 100>>
EmojiFill == <<255, 255, 255, 230>>
TitleFill == <<255, 255, 255, 255>>
SubtitleFill == <<255, 255, 255, 220>>

\* (WIDTH - emoji_width) // 2
EmojiX(w) == (WIDTH - w) \div 2
\* A variant that halves the canvas width only.
TitleXNotHalved(w) == WIDTH \div 2 - w

\* (WIDTH - title_width) // 2
TitleX(w) == (WIDTH - w) \div 2
\* (WIDTH - subtitle_width) // 2
SubtitleX(w) == (WIDTH - w) \div 2

\* draw.text(position, text, font=font, fill=fill)
DrawText(x, y, text, font, fill) ==
    [x |-> x, y |-> y, text |-> text, font |-> font, fill |-> fill]

\* A variant that draws the foreground first and the shadow over it.
AddTextForegroundFirst(x, y, text, font, fill, offset) ==
    << DrawText(x, y, text, font, fill),
       DrawText(x + offset, y + offset, text, font, ShadowFill) >>

\* add_text_with_shadow: the draw.text calls it makes, in order
AddTextWithShadow(x, y, text, font, fill, offset) ==
    << DrawText(x + offset, y + offset, text, font, ShadowFill),
       DrawText(x, y, text, font, fill) >>

----------------------------------------------------------------------------
(* Vignette, lines 104-115 *)

VignetteSteps == 50
VignetteMaxAlpha == 30

\* int((i / 50) * 30); the float product truncates to floor(i*30/50) for
\* every i in 0..49
VignetteAlpha(i) == (i * VignetteMaxAlpha) \div VignetteSteps

\* overlay_draw.rectangle([i, i, WIDTH - i, HEIGHT - i], outline=(0,0,0,alpha), width=1)
VignetteRect(i) ==
    [x0 |-> i, y0 |-> i, x1 |-> WIDTH - i, y1 |-> HEIGHT - i, alpha |-> VignetteAlpha(i)]

\* the overlay after the whole loop
VignetteOverlay == [k \in 1..VignetteSteps |-> VignetteRect(k - 1)]

----------------------------------------------------------------------------
(* The run of the script, lines 58-126 *)

NoFailure == [step |-> "none", img |-> 0]
NoFonts == [title |-> "none", subtitle |-> "none", emoji |-> "none"]

\* A variant that catches the error per image and goes on with the next one.
RaiseAndContinue(step) ==
    /\ failed' = [step |-> step, img |-> IF step = "mkdir" THEN 0 ELSE idx]
    /\ IF step # "mkdir" /\ idx < NumConfigs
       THEN pc' = "creating" /\ idx' = idx + 1
       ELSE pc' = "aborted" /\ idx' = idx
    /\ UNCHANGED <<dirMade, out, written, avail, fonts, bg, draws, overlay>>

\* An uncaught exception: the interpreter unwinds and the process ends.
Raise(step) ==
    /\ pc' = "aborted"
    /\ failed' = [step |-> step, img |-> IF step = "mkdir" THEN 0 ELSE idx]
    /\ UNCHANGED <<idx, dirMade, out, written, avail, fonts, bg, draws, overlay>>

\* os.makedirs(output_dir, exist_ok=True); print("Generating ...")
MakeDirs ==
    /\ pc = "mkdir"
    /\ pc' = "creating"
    /\ dirMade' = dirMade + 1
    /\ out' = Append(out, <<"Generating">>)
    /\ UNCHANGED <<idx, written, avail, fonts, bg, draws, overlay, failed>>

\* print(f"Creating {config['filename']}...")
Creating ==
    /\ pc = "creating"
    /\ pc' = "gradient"
    /\ out' = Append(out, <<"Creating", FileName(idx)>>)
    /\ UNCHANGED <<idx, dirMade, written, avail, fonts, bg, draws, overlay, failed>>

\* img = create_gradient(...); draw = ImageDraw.Draw(img, 'RGBA')
Gradient ==
    /\ pc = "gradient"
    /\ pc' = "fonts"
    /\ bg' = hero_configs[idx].gradient
    /\ draws' = << >>
    /\ UNCHANGED <<idx, dirMade, out, written, avail, fonts, overlay, failed>>

\* the try/except of lines 72-84
Fonts ==
    /\ pc = "fonts"
    /\ LET r == ResolveFonts(avail, fonts) IN
       IF r.raised
       THEN /\ pc' = "aborted"
            /\ failed' = [step |-> "fonts", img |-> idx]
            /\ fonts' = r.fonts
       ELSE /\ pc' = "emoji"
            /\ failed' = failed
            /\ fonts' = r.fonts
    /\ UNCHANGED <<idx, dirMade, out, written, avail, bg, draws, overlay>>

\* lines 87-90
Emoji ==
    /\ pc = "emoji"
    /\ \E w \in RunTextWidths :
         draws' = Append(draws, DrawText(EmojiX(w), EmojiY, hero_configs[idx].emoji,
                                         fonts.emoji, EmojiFill))
    /\ pc' = "title"
    /\ UNCHANGED <<idx, dirMade, out, written, avail, fonts, bg, overlay, failed>>

\* lines 93-96
Title ==
    /\ pc = "title"
    /\ \E w \in RunTextWidths :
         draws' = draws \o AddTextWithShadow(TitleX(w), TitleY, hero_configs[idx].title,
                                             fonts.title, TitleFill, DefaultShadowOffset)
    /\ pc' = "subtitle"
    /\ UNCHANGED <<idx, dirMade, out, written, avail, fonts, bg, overlay, failed>>

\* lines 99-102
Subtitle ==
    /\ pc = "subtitle"
    /\ \E w \in RunTextWidths :
         draws' = draws \o AddTextWithShadow(SubtitleX(w), SubtitleY,
                                             hero_configs[idx].subtitle, fonts.subtitle,
                                             SubtitleFill, SubtitleShadowOffset)
    /\ pc' = "vignette"
    /\ UNCHANGED <<idx, dirMade, out, written, avail, fonts, bg, overlay, failed>>

\* lines 105-117: the overlay, the 50 rectangles, alpha_composite
Vignette ==
    /\ pc = "vignette"
    /\ overlay' = VignetteOverlay
    /\ pc' = "save"
    /\ UNCHANGED <<idx, dirMade, out, written, avail, fonts, bg, draws, failed>>

\* lines 120-123, then the next iteration or lines 125-126
Save ==
    /\ pc = "save"
    /\ written' = Append(written, FileName(idx))
    /\ IF idx < NumConfigs
       THEN /\ idx' = idx + 1
            /\ pc' = "creating"
            /\ out' = Append(out, <<"Saved", FileName(idx)>>)
       ELSE /\ idx' = idx
            /\ pc' = "done"
            /\ out' = out \o << <<"Saved", FileName(idx)>>, <<"AllGenerated">>, <<"Location">> >>
    /\ UNCHANGED <<dirMade, avail, fonts, bg, draws, overlay, failed>>

\* the steps outside the font try/except, each of which may raise
FailingSteps == {"mkdir", "gradient", "emoji", "title", "subtitle", "vignette", "save"}

\* any of them raising: nothing catches it
Fail ==
    /\ pc \in FailingSteps
    /\ Raise(pc)

RunInit ==
    /\ pc = "mkdir"
    /\ idx = 1
    /\ dirMade = 0
    /\ out = << >>
    /\ written = << >>
    /\ avail \in SUBSET FontCandidates
    /\ fonts = NoFonts
    /\ bg = << >>
    /\ draws = << >>
    /\ overlay = << >>
    /\ failed = NoFailure

GradIdle == gW = 0 /\ gH = 0 /\ gC1 = << >> /\ gC2 = << >> /\ gPx = 0 /\ gPy = 0 /\ gPixel = << >>
CenterIdle == cRole = "none" /\ cWidth = 0 /\ cStart = 0
VigIdle == vI = 0 /\ vRects = << >> /\ vPx = 0 /\ vPy = 0

Init == RunInit /\ GradIdle /\ CenterIdle /\ VigIdle

Next ==
    \/ MakeDirs /\ UNCHANGED <<gradVars, centerVars, vigVars>>
    \/ Creating /\ UNCHANGED <<gradVars, centerVars, vigVars>>
    \/ Gradient /\ UNCHANGED <<gradVars, centerVars, vigVars>>
    \/ Fonts /\ UNCHANGED <<gradVars, centerVars, vigVars>>
    \/ Emoji /\ UNCHANGED <<gradVars, centerVars, vigVars>>
    \/ Title /\ UNCHANGED <<gradVars, centerVars, vigVars>>
    \/ Subtitle /\ UNCHANGED <<gradVars, centerVars, vigVars>>
    \/ Vignette /\ UNCHANGED <<gradVars, centerVars, vigVars>>
    \/ Save /\ UNCHANGED <<gradVars, centerVars, vigVars>>
    \/ Fail /\ UNCHANGED <<gradVars, centerVars, vigVars>>

Spec == Init /\ [][Next]_vars

----------------------------------------------------------------------------
(* Properties of the run *)

HeroNames == <<"hero-1.jpg", "hero-2.jpg", "hero-3.jpg">>

\* what a run without failure prints, line by line
RECURSIVE ImageLines(_)
ImageLines(k) ==
    IF k = 0 THEN << >>
    ELSE ImageLines(k - 1) \o << <<"Creating", HeroNames[k]>>, <<"Saved", HeroNames[k]>> >>

CanonicalOut ==
    << <<"Generating">> >> \o ImageLines(3) \o << <<"AllGenerated">>, <<"Location">> >>

IsPrefix(s, t) == Len(s) <= Len(t) /\ s = SubSeq(t, 1, Len(s))

CountLines(kind) == Cardinality({j \in 1..Len(out) : out[j][1] = kind})

AfterFonts == {"emoji", "title", "subtitle", "vignette", "save"}

\* C1: the output directory is made exactly once, before the first image;
\* the images are processed one after another in list order, each saved
\* before the next one's "Creating" line; a run that ends without failure has
\* written exactly hero-1.jpg, hero-2.jpg, hero-3.jpg, each once.
C1_SequentialRun ==
    /\ dirMade <= 1
    /\ CountLines("Creating") > 0 => dirMade = 1
    /\ IsPrefix(out, CanonicalOut)
    /\ written = SubSeq(HeroNames, 1, CountLines("Saved"))
    /\ CountLines("Creating") <= Len(written) + 1
    /\ pc \in AfterFonts \cup {"gradient", "fonts"} =>
          /\ CountLines("Creating") = idx
          /\ Len(written) = idx - 1
    /\ pc = "done" =>
          /\ written = HeroNames
          /\ out = CanonicalOut
          /\ dirMade = 1
          /\ failed = NoFailure

C1_Witness == pc = "done" /\ Len(written) = 3 /\ failed = NoFailure

\* C4: every text drawn with a shadow is two draws of the same string and
\* font, the shadow first at (x+k, y+k) in black with alpha 100 and then the
\* foreground at (x, y); the title uses k = 3, the subtitle k = 2, and the
\* emoji is drawn once, without shadow, before the title and the subtitle.
C4_ShadowBeforeForeground ==
    /\ Len(draws) \in {0, 1, 3, 5}
    /\ Len(draws) >= 1 =>
          /\ draws[1].fill = <<255, 255, 255, 230>>
          /\ draws[1].y = 150
          /\ \E i \in 1..3 : draws[1].text = hero_configs[i].emoji
          /\ \A j \in 2..Len(draws) : draws[j].text # draws[1].text
    /\ Len(draws) >= 3 =>
          /\ draws[2].fill = <<0, 0, 0, 100>>
          /\ draws[3].fill = <<255, 255, 255, 255>>
          /\ draws[3].y = 320
          /\ draws[2].x = draws[3].x + 3 /\ draws[2].y = draws[3].y + 3
          /\ draws[2].text = draws[3].text /\ draws[2].font = draws[3].font
          /\ \E i \in 1..3 : draws[3].text = hero_configs[i].title
    /\ Len(draws) >= 5 =>
          /\ draws[4].fill = <<0, 0, 0, 100>>
          /\ draws[5].fill = <<255, 255, 255, 220>>
          /\ draws[5].y = 410
          /\ draws[4].x = draws[5].x + 2 /\ draws[4].y = draws[5].y + 2
          /\ draws[4].text = draws[5].text /\ draws[4].font = draws[5].font
          /\ \E i \in 1..3 : draws[5].text = hero_configs[i].subtitle

C4_Witness == pc = "vignette" /\ Len(draws) = 5 /\ draws[3].x = 0 /\ draws[2].x = 3

AllLoad(cands) == \A r \in {"title", "subtitle", "emoji"} : cands[r] \in avail

\* the first candidate of a role's own chain that loads
OwnChainFont(r) ==
    IF PrimaryFonts[r] \in avail THEN PrimaryFonts[r]
    ELSE IF AlternateFonts[r] \in avail THEN AlternateFonts[r]
    ELSE "default"

\* C5 as stated: each role gets the first candidate of its own chain that
\* loads, whatever the other roles' candidates do.
C5_PerRoleChains ==
    pc \in AfterFonts => \A r \in {"title", "subtitle", "emoji"} : fonts[r] = OwnChainFont(r)

\* C5 as amended: the three roles share one chain. All three get their
\* primary font when all three primaries load; otherwise all three get their
\* alternate font when all three alternates load; otherwise all three get
\* the built-in default.
C5_SharedChain ==
    pc \in AfterFonts =>
        fonts = IF AllLoad(PrimaryFonts) THEN PrimaryFonts
                ELSE IF AllLoad(AlternateFonts) THEN AlternateFonts
                ELSE DefaultFonts

C5_Witness ==
    /\ pc = "emoji"
    /\ PrimaryFonts.title \in avail /\ PrimaryFonts.subtitle \in avail
    /\ PrimaryFonts.emoji \notin avail
    /\ fonts.title # PrimaryFonts.title

\* C6: whatever font files load, font resolution raises nothing and leaves a
\* font bound to each role, the iteration goes on to draw and save, and a
\* run that no other step fails ends with the three files written.
C6_FontsNeverFail ==
    /\ failed.step # "fonts"
    /\ pc = "fonts" => ENABLED Fonts
    /\ pc \in AfterFonts => \A r \in {"title", "subtitle", "emoji"} : fonts[r] # "none"
    /\ pc = "aborted" => failed.step \in FailingSteps
    /\ pc = "done" => written = HeroNames

C6_Witness ==
    /\ pc = "done" /\ avail = {} /\ written = HeroNames
    /\ fonts = DefaultFonts

\* C8: a failure of a non-font step of image k ends the run there: nothing
\* of images k+1..3 is run or written, the success line is not printed, the
\* files of images 1..k-1 stay written, and image k is not tried again.
C8_FailureAborts ==
    failed # NoFailure =>
        /\ pc = "aborted"
        /\ ~ ENABLED Next
        /\ written = SubSeq(HeroNames, 1, IF failed.img = 0 THEN 0 ELSE failed.img - 1)
        /\ out = SubSeq(CanonicalOut, 1, 2 * failed.img)
        /\ CountLines("AllGenerated") = 0

C8_Witness ==
    /\ pc = "aborted" /\ failed = [step |-> "save", img |-> 2]
    /\ written = <<"hero-1.jpg">>

----------------------------------------------------------------------------
(* create_gradient, lines 37-48 *)

\* the widths other than WIDTH, and the heights, the gradient is built for
MaxGradWidth == 16
MaxGradHeight == 2

GradWidths == (1..MaxGradWidth) \cup {WIDTH}
GradHeights == 1..MaxGradHeight

ConfiguredPairs == {hero_configs[i].gradient : i \in 1..NumConfigs}

\* further colour pairs: full contrast, opposite ramps, no change
SamplePairs ==
    { << <<0, 0, 0>>, <<255, 255, 255>> >>,
      << <<255, 0, 128>>, <<0, 255, 128>> >>,
      << <<40, 40, 40>>, <<40, 40, 40>> >> }

ColorPairs == ConfiguredPairs \cup SamplePairs

\* int(255 * (x / width)): the float quotient and product, truncated.  For
\* every width up to 2099 and every x < width the result of the float
\* computation is floor(255*x/width).
MaskValue(x, width) == (255 * x) \div width

\* A variant with the two loops swapped: x outside, y inside.
MaskDataColumnMajor(width, height, k) == MaskValue(k \div height, width)

\* mask_data[k]: the k-th value appended by the loops (y outside, x inside)
MaskData(width, height, k) == MaskValue(k % width, width)

\* mask.putdata(mask_data): the flat list fills the image row by row
MaskPixel(width, height, px, py) == MaskData(width, height, py * width + px)

\* A variant that truncates the division by 255 instead of rounding it.
Div255Truncating(a) == a \div 255

\* the imaging library's 8-bit division by 255: tmp = a + 128; ((tmp >> 8) + tmp) >> 8
Div255(a) == LET tmp == a + 128 IN ((tmp \div 256) + tmp) \div 256

\* base.paste(top, (0, 0), mask), one channel of one pixel
Blend(mask, in1, in2) == Div255(in1 * (255 - mask) + in2 * mask)

\* the pixel (px, py) of the buffer create_gradient returns
GradientPixel(width, height, color1, color2, px, py) ==
    [c \in 1..3 |-> Blend(MaskPixel(width, height, px, py), color1[c], color2[c])]

GradientInit ==
    /\ gW \in GradWidths
    /\ gH \in GradHeights
    /\ \E p \in ColorPairs : gC1 = p[1] /\ gC2 = p[2]
    /\ gPx = 0 /\ gPy = 0
    /\ gPixel = << >>

\* create_gradient(gW, gH, gC1, gC2), read at one pixel of the result
CreateGradient ==
    /\ gPixel = << >>
    /\ \E px \in 0..(gW - 1), py \in 0..(gH - 1) :
          /\ gPx' = px
          /\ gPy' = py
          /\ gPixel' = GradientPixel(gW, gH, gC1, gC2, px, py)
    /\ UNCHANGED <<gW, gH, gC1, gC2>>

RunIdle ==
    /\ pc = "idle" /\ idx = 0 /\ dirMade = 0 /\ out = << >> /\ written = << >>
    /\ avail = {} /\ fonts = NoFonts /\ bg = << >> /\ draws = << >> /\ overlay = << >>
    /\ failed = NoFailure

InitGradient == RunIdle /\ GradientInit /\ CenterIdle /\ VigIdle

NextGradient == CreateGradient /\ UNCHANGED <<runVars, centerVars, vigVars>>

SpecGradient == InitGradient /\ [][NextGradient]_vars

Abs(n) == IF n < 0 THEN -n ELSE n

GradientRead == gPixel # << >>

ConfiguredAtFullWidth == gW = WIDTH /\ <<gC1, gC2>> \in ConfiguredPairs

\* C2 as stated: at width 1920 and for the configured pairs every channel of
\* every pixel is the linear interpolation start + (end - start) * x / W
\* rounded to a nearest integer, the same in every row of a column.
C2_ExactInterpolation ==
    (GradientRead /\ ConfiguredAtFullWidth) =>
        /\ \A c \in 1..3 :
              Abs(2 * gW * gPixel[c] - 2 * (gC1[c] * gW + (gC2[c] - gC1[c]) * gPx)) <= gW
        /\ gPixel = GradientPixel(gW, gH, gC1, gC2, gPx, 0)

\* C2 as amended: at width 1920 and for the configured pairs every channel
\* of every pixel is less than 1 away from start + (end - start) * x / W (so
\* at most 1 away from its rounding), column 0 is the start colour, and the
\* pixel is the same in every row of a column.
C2_InterpolationWithinOne ==
    (GradientRead /\ ConfiguredAtFullWidth) =>
        /\ \A c \in 1..3 :
              Abs(gW * gPixel[c] - (gC1[c] * gW + (gC2[c] - gC1[c]) * gPx)) < gW
        /\ gPx = 0 => gPixel = gC1
        /\ gPixel = GradientPixel(gW, gH, gC1, gC2, gPx, 0)

C2_Witness ==
    /\ GradientRead /\ ConfiguredAtFullWidth
    /\ gPx = 15 /\ gPy = 1 /\ gC1 = <<255, 107, 107>> /\ gPixel = <<255, 107, 107>>

RightmostRead == GradientRead /\ gPx = gW - 1

\* C3 as stated: for every width and every pair with start # end the mask
\* at the rightmost column is below 255 and the pixel there differs from the
\* end colour in at least one channel.
C3_RightmostNeverEnd ==
    (RightmostRead /\ gC1 # gC2) =>
        /\ (255 * (gW - 1)) \div gW < 255
        /\ gPixel # gC2

\* C3 as amended: for every width the mask at the rightmost column is below
\* 255, but the rounded blend still gives the end value in every channel
\* with |end - start| * (255 - mask) <= 127 and only the other channels
\* differ; for the three configured pairs at width 1920 the rightmost
\* column is exactly the end colour.
C3_RightmostRoundsToEnd ==
    RightmostRead =>
        LET m == (255 * (gW - 1)) \div gW IN
        /\ m < 255
        /\ \A c \in 1..3 : (gPixel[c] = gC2[c]) <=> (Abs(gC2[c] - gC1[c]) * (255 - m) <= 127)
        /\ ConfiguredAtFullWidth => gPixel = gC2

C3_Witness ==
    /\ RightmostRead /\ ConfiguredAtFullWidth
    /\ gPx = 1919 /\ gC1 = <<72, 187, 120>> /\ gPixel = <<56, 178, 172>>

----------------------------------------------------------------------------
(* Horizontal centring, lines 88-90, 94-96, 100-102 *)

TextX(role, w) ==
    IF role = "emoji" THEN EmojiX(w)
    ELSE IF role = "title" THEN TitleX(w)
    ELSE SubtitleX(w)

CenterInit == cRole = "none" /\ cWidth = 0 /\ cStart = 0

\* textbbox measures a width; the x of the draw position is computed from it
Center ==
    /\ cRole = "none"
    /\ \E r \in {"emoji", "title", "subtitle"}, w \in 0..MaxTextWidth :
          /\ cRole' = r
          /\ cWidth' = w
          /\ cStart' = TextX(r, w)

InitCenter == RunIdle /\ GradIdle /\ CenterInit /\ VigIdle

NextCenter == Center /\ UNCHANGED <<runVars, gradVars, vigVars>>

SpecCenter == InitCenter /\ [][NextCenter]_vars

\* C7 as stated: for every measured width >= 0 the title starts at
\* (1920 - width) / 2 rounded down, with start >= 0 and start + width <= 1920,
\* and the emoji and the subtitle use the same formula.
C7_CenteredInsideCanvas ==
    cRole # "none" =>
        /\ 2 * cStart <= 1920 - cWidth /\ 1920 - cWidth <= 2 * cStart + 1
        /\ cStart >= 0
        /\ cStart + cWidth <= 1920

\* C7 as amended: for every measured width >= 0 and each of the three texts
\* the start is (1920 - width) / 2 rounded down; start >= 0 and
\* start + width <= 1920 hold when width <= 1920, and the start is negative
\* when width > 1920.
C7_CenteredFloor ==
    cRole # "none" =>
        /\ 2 * cStart <= 1920 - cWidth /\ 1920 - cWidth <= 2 * cStart + 1
        /\ cWidth <= 1920 => (cStart >= 0 /\ cStart + cWidth <= 1920)
        /\ cWidth > 1920 => cStart < 0

C7_Witness == cRole = "title" /\ cWidth = 1921 /\ cStart = -1

----------------------------------------------------------------------------
(* The vignette loop, lines 104-115 *)

\* how far from the left and right edges the pixels read lie
VignetteBand == 51

ProbeColumns == (0..VignetteBand) \cup ((WIDTH - 1 - VignetteBand)..(WIDTH - 1))
ProbeRows == {0, 4, HEIGHT \div 2, HEIGHT - 5, HEIGHT - 1}

\* whether the 1px outline of rectangle r covers canvas pixel (x, y): both
\* corners are inclusive and what lies outside the canvas is clipped
OnOutline(r, x, y) ==
    /\ 0 <= x /\ x < WIDTH /\ 0 <= y /\ y < HEIGHT
    /\ r.x0 <= x /\ x <= r.x1 /\ r.y0 <= y /\ y <= r.y1
    /\ (x = r.x0 \/ x = r.x1 \/ y = r.y0 \/ y = r.y1)

\* the alpha of overlay pixel (x, y) after the rectangles rects were drawn
\* in order: the overlay starts transparent and a draw replaces the pixel
RECURSIVE OverlayAlpha(_, _, _)
OverlayAlpha(rects, x, y) ==
    IF rects = << >> THEN 0
    ELSE IF OnOutline(rects[Len(rects)], x, y) THEN rects[Len(rects)].alpha
    ELSE OverlayAlpha(SubSeq(rects, 1, Len(rects) - 1), x, y)

VignetteInit ==
    /\ vI = 0
    /\ vRects = << >>
    /\ vPx \in ProbeColumns
    /\ vPy \in ProbeRows

\* one iteration of "for i in range(50)"
DrawRect ==
    /\ vI < VignetteSteps
    /\ vRects' = Append(vRects, VignetteRect(vI))
    /\ vI' = vI + 1
    /\ UNCHANGED <<vPx, vPy>>

InitVignette == RunIdle /\ GradIdle /\ CenterIdle /\ VignetteInit

NextVignette == DrawRect /\ UNCHANGED <<runVars, gradVars, centerVars>>

SpecVignette == InitVignette /\ [][NextVignette]_vars

Min(a, b) == IF a < b THEN a ELSE b

\* the distance of pixel (x, y) to the nearest canvas edge
EdgeDistance(x, y) == Min(Min(x, 1919 - x), Min(y, 599 - y))

\* C9: the outline at inset i has alpha floor(i*30/50); of two overlay
\* pixels the one nearer to its nearest edge has the greater or equal alpha;
\* a pixel more than 49 pixels from every edge stays fully transparent.
C9_DarkerTowardEdges ==
    /\ \A k \in 1..Len(vRects) : vRects[k].alpha = ((k - 1) * 30) \div 50
    /\ vI = 50 =>
          /\ \A x \in ProbeColumns :
                EdgeDistance(vPx, vPy) <= EdgeDistance(x, vPy) =>
                    OverlayAlpha(vRects, vPx, vPy) >= OverlayAlpha(vRects, x, vPy)
          /\ EdgeDistance(vPx, vPy) > 49 => OverlayAlpha(vRects, vPx, vPy) = 0

\* C10: the rectangle at inset i lies on columns i and 1919 - i and rows i
\* and 599 - i, inside the canvas, so that the finished overlay is
\* mirror-symmetric left to right and top to bottom.
C10_InsetOnAllSides ==
    /\ \A k \in 1..Len(vRects) :
          /\ vRects[k].x0 = k - 1 /\ vRects[k].y0 = k - 1
          /\ vRects[k].x1 = 1919 - (k - 1) /\ vRects[k].y1 = 599 - (k - 1)
    /\ vI = 50 =>
          /\ OverlayAlpha(vRects, vPx, vPy) = OverlayAlpha(vRects, 1919 - vPx, vPy)
          /\ OverlayAlpha(vRects, vPx, vPy) = OverlayAlpha(vRects, vPx, 599 - vPy)

====
